---- MODULE Spec2Model ----
(***************************************************************************)
(* Model of utils/database.py: the Database facade over the three tables   *)
(* guilds, players and guild_information.  Every method is one action; the *)
(* SQL statement it sends is evaluated by operators that follow Postgres'  *)
(* semantics (ORDER BY, DISTINCT ON, array_length, cardinality, ROUND,     *)
(* ON CONFLICT).  Rows are written to guilds and players by an external    *)
(* ingestion process, modelled by the insert actions.                      *)
(***************************************************************************)
EXTENDS Integers, Sequences, FiniteSets, Bags, TLC

VARIABLES guilds, players, guild_information, guild_id_unique,
          json_keys, last_upsert, call, result

vars == <<guilds, players, guild_information, guild_id_unique,
          json_keys, last_upsert, call, result>>

tables == <<guilds, players, guild_information>>

(***************************************************************************)
(* Bounds and value domains                                                *)
(***************************************************************************)
\* total number of rows stored in the three tables together
MaxRows == 2
\* capture_date values are 1..MaxDate
MaxDate == 2
\* longest uuid list passed to get_names / get_players
MaxUuids == 2

GuildIds == {"G1", "G2"}
Uuids == {"u1", "u2"}
Discords == {"D1", "D2"}
\* stored TEXT values: "\"a\"" is a JSON document (the string a), "b" is not
Names == {"\"a\"", "b"}
\* REAL columns, in thousandths (12.345)
Reals == {12345}
\* stored TEXT[] values of guilds.players
PlayerArrays == {<<>>, <<"u1">>}
\* database server clock values read by NOW()
Nows == {MaxDate + 1}
\* field names an application may put into json_keys
JsonKeyNames == {"guild_name", "name", "discord"}

\* collation order of the TEXT values used as sort keys
TextRank == [s \in GuildIds |-> IF s = "G1" THEN 1 ELSE 2]

(***************************************************************************)
(* Values                                                                  *)
(***************************************************************************)
\* SQL NULL / Python None
None == [none |-> TRUE]
\* a non-null value of a nullable type
Some(v) == [val |-> v]

\* a returned None, record or string; a returned list; a returned dict
Return(v) == [kind |-> "return", value |-> v]
ReturnList(v) == [kind |-> "return", list |-> v]
ReturnDict(v) == [kind |-> "return", dict |-> v]
Raise(e) == [kind |-> "raise", exc |-> e]

GuildRows ==
    [guild_id : GuildIds, guild_name : Names, capture_date : 1..MaxDate,
     players : PlayerArrays, average_weight : Reals, average_skills : Reals,
     average_catacombs : Reals, average_slayer : Reals,
     scammers : {0}, position_change : {0}]

PlayerRows ==
    [uuid : Uuids, name : Names, weight : Reals, skill_weight : Reals,
     slayer_weight : Reals, dungeon_weight : Reals, average_skill : Reals,
     catacomb : Reals, catacomb_xp : Reals, total_slayer : Reals,
     capture_date : {1}, scam_reason : {None}]

InfoRows == [guild_id : GuildIds, discord : Discords]

\* the stored tuples of a table, one element per physical row
Tuples(table) == UNION {{<<r, k>> : k \in 1..table[r]} : r \in DOMAIN table}

TotalRows ==
    BagCardinality(guilds) + BagCardinality(players)
        + BagCardinality(guild_information)

(***************************************************************************)
(* SQL expressions                                                         *)
(***************************************************************************)
\* ROUND(x::numeric, 2)::float, x in thousandths, result in hundredths
Round2(x) ==
    IF x >= 0 THEN (x + 5) \div 10 ELSE -((-x + 5) \div 10)

\* array_length(a, 1): NULL for an array without elements
array_length(a) == IF Len(a) = 0 THEN None ELSE Some(Len(a))

\* cardinality(a): number of elements, 0 for the empty array
cardinality(a) == Some(Len(a))

\* NOW() - capture_date
time_difference(now, row) == now - row.capture_date

\* all orders in which the tuples of S can be returned
Orders(S) ==
    {s \in [1..Cardinality(S) -> S] :
        \A i, j \in 1..Cardinality(S) : i # j => s[i] # s[j]}

\* ORDER BY guild_id, capture_date (DESC forgotten)
LatestFirstAsc(r1, r2) ==
    \/ TextRank[r1.guild_id] < TextRank[r2.guild_id]
    \/ /\ r1.guild_id = r2.guild_id
       /\ r1.capture_date < r2.capture_date

\* ORDER BY guild_id, capture_date DESC
LatestFirst(r1, r2) ==
    \/ TextRank[r1.guild_id] < TextRank[r2.guild_id]
    \/ /\ r1.guild_id = r2.guild_id
       /\ r1.capture_date > r2.capture_date

\* the orders of S in which ORDER BY guild_id, capture_date DESC returns it
OrderByGuildIdCaptureDateDesc(S) ==
    {s \in Orders(S) :
        \A i, j \in 1..Cardinality(S) : i < j => ~LatestFirst(s[j][1], s[i][1])}

\* no ORDER BY clause
Unordered(r1, r2) == FALSE

\* ORDER BY capture_date
OldestFirst(r1, r2) == r1.capture_date < r2.capture_date

\* the orders of S in which ORDER BY capture_date returns it
OrderByCaptureDate(S) ==
    {s \in Orders(S) :
        \A i, j \in 1..Cardinality(S) : i < j => ~OldestFirst(s[j][1], s[i][1])}

\* SELECT without DISTINCT ON
SelectAll(s) == s

\* DISTINCT ON (guild_id): the first tuple of every run of equal guild_id
RECURSIVE DistinctOn(_)
DistinctOn(s) ==
    IF Len(s) <= 1 THEN s
    ELSE LET rest == DistinctOn(Tail(s))
         IN  IF s[1][1].guild_id = s[2][1].guild_id
                 THEN <<s[1]>> \o Tail(rest)
                 ELSE <<s[1]>> \o rest

\* WHERE guild_id = $1
WhereGuildId(table, guild_id) ==
    {t \in Tuples(table) : t[1].guild_id = guild_id}

\* no WHERE clause
WhereNothing(table, uuids) == Tuples(table)

\* WHERE uuid = ANY($1)
WhereUuidAny(table, uuids) ==
    {t \in Tuples(table) : \E i \in 1..Len(uuids) : t[1].uuid = uuids[i]}

(***************************************************************************)
(* Row shaping                                                             *)
(***************************************************************************)
\* json.loads on the stored texts: defined on the JSON documents only
JsonValue == [s \in {"\"a\""} |-> "a"]

json_loads(value) == JsonValue[value]

\* format_json without its test for None: dict(None) raises
decode_fails_on_none(record) ==
    \/ record = None
    \/ \E key \in DOMAIN record \cap json_keys : record[key] \notin DOMAIN JsonValue

\* json.loads raises on a text that is no JSON document
decode_fails(record) ==
    /\ record # None
    /\ \E key \in DOMAIN record \cap json_keys : record[key] \notin DOMAIN JsonValue

\* format_json that returns dict(record) as it is
format_json_raw(record) == record

format_json(record) ==
    IF record = None
        THEN None
        ELSE [key \in DOMAIN record |->
                 IF key \in json_keys THEN json_loads(record[key]) ELSE record[key]]

\* [self.format_json(row) for row in r]
format_rows(r) ==
    IF \E i \in 1..Len(r) : decode_fails(r[i])
        THEN Raise("JSONDecodeError")
        ELSE ReturnList([i \in 1..Len(r) |-> format_json(r[i])])

\* self.format_json(r) for the row or None of fetchrow
format_row(r) ==
    IF decode_fails(r) THEN Raise("JSONDecodeError") ELSE Return(format_json(r))

(***************************************************************************)
(* The SELECT lists                                                        *)
(***************************************************************************)
GuildsSelect(now, row) ==
    [average_catacombs |-> Round2(row.average_catacombs),
     average_skills |-> Round2(row.average_skills),
     average_slayer |-> Round2(row.average_slayer),
     average_weight |-> Round2(row.average_weight),
     guild_id |-> row.guild_id,
     guild_name |-> row.guild_name,
     players |-> array_length(row.players),
     time_difference |-> time_difference(now, row),
     scammers |-> row.scammers,
     position_change |-> row.position_change]

GuildSelect(now, row) ==
    [average_catacombs |-> Round2(row.average_catacombs),
     average_skills |-> Round2(row.average_skills),
     average_slayer |-> Round2(row.average_slayer),
     average_weight |-> Round2(row.average_weight),
     guild_id |-> row.guild_id,
     guild_name |-> row.guild_name,
     players |-> row.players,
     time_difference |-> time_difference(now, row),
     scammers |-> row.scammers]

MetricsSelect(now, row) ==
    [average_weight |-> Round2(row.average_weight),
     average_skills |-> Round2(row.average_skills),
     average_catacombs |-> Round2(row.average_catacombs),
     average_slayer |-> Round2(row.average_slayer),
     member_count |-> cardinality(row.players),
     time_difference |-> time_difference(now, row)]

HistorySelect(now, row) ==
    [players |-> row.players,
     time_difference |-> time_difference(now, row)]

AutocompleteSelect(row) ==
    [guild_id |-> row.guild_id, guild_name |-> row.guild_name]

DiscordSelect(row) == [discord |-> row.discord]

NamesSelect(row) == [uuid |-> row.uuid, name |-> row.name]

PlayersSelect(now, row) ==
    [uuid |-> row.uuid,
     name |-> row.name,
     weight |-> Round2(row.weight),
     average_skill |-> Round2(row.average_skill),
     catacomb |-> Round2(row.catacomb),
     total_slayer |-> Round2(row.total_slayer),
     time_difference |-> time_difference(now, row),
     scam_reason |-> row.scam_reason]

\* the stored rows of the tuples of s
Rows(s) == [i \in 1..Len(s) |-> s[i][1]]

\* fetchrow: the first row of the result, None when there is none
fetchrow(r) == IF Len(r) = 0 THEN None ELSE r[1]

\* str(guild_id): guild ids are passed as str, and str of a str is that str
str(guild_id) == guild_id

\* the uuid lists a caller passes
UuidLists == UNION {[1..n -> Uuids] : n \in 0..MaxUuids}

\* no call is in progress: the caller has consumed the last result
Idle == [op |-> "idle"]

(***************************************************************************)
(* State after Database.__init__, on a database without rows.  The schema  *)
(* of guild_information is the docstring's (no constraint on guild_id) or  *)
(* one with the unique index the ON CONFLICT (guild_id) clause infers.     *)
(***************************************************************************)
Init ==
    /\ guilds = EmptyBag
    /\ players = EmptyBag
    /\ guild_information = EmptyBag
    /\ guild_id_unique \in BOOLEAN
    /\ json_keys = {}
    /\ last_upsert = [g \in GuildIds |-> None]
    /\ call = Idle
    /\ result = Return(None)

(***************************************************************************)
(* Writers outside the facade                                              *)
(***************************************************************************)
External ==
    /\ call = Idle
    /\ UNCHANGED <<call, result>>
    /\ UNCHANGED <<guild_id_unique, json_keys, last_upsert>>

\* the ingestion process stores one more guild snapshot
InsertGuild(row) ==
    /\ External
    /\ TotalRows < MaxRows
    /\ guilds' = guilds (+) SetToBag({row})
    /\ UNCHANGED <<players, guild_information>>

\* the ingestion process stores a player; players.uuid is UNIQUE
InsertPlayer(row) ==
    /\ External
    /\ TotalRows < MaxRows
    /\ \A t \in Tuples(players) : t[1].uuid # row.uuid
    /\ players' = players (+) SetToBag({row})
    /\ UNCHANGED <<guilds, guild_information>>

\* a plain INSERT INTO guild_information, rejected by the unique index if any
InsertInfo(row) ==
    /\ External
    /\ TotalRows < MaxRows
    /\ guild_id_unique => WhereGuildId(guild_information, row.guild_id) = {}
    /\ guild_information' = guild_information (+) SetToBag({row})
    /\ UNCHANGED <<guilds, players>>

\* the application sets Database.json_keys
set_json_keys(keys) ==
    /\ call = Idle
    /\ json_keys = {}
    /\ keys # {}
    /\ json_keys' = keys
    /\ UNCHANGED <<call, result>>
    /\ UNCHANGED <<tables, guild_id_unique, last_upsert>>

(***************************************************************************)
(* Read operations                                                         *)
(***************************************************************************)
Read == UNCHANGED <<tables, guild_id_unique, json_keys, last_upsert>>

get_guilds ==
    /\ call = Idle
    /\ \E now \in Nows, s \in OrderByGuildIdCaptureDateDesc(Tuples(guilds)) :
           LET rows == Rows(DistinctOn(s))
               r == [i \in 1..Len(rows) |-> GuildsSelect(now, rows[i])]
           IN  /\ call' = [op |-> "get_guilds", now |-> now]
               /\ result' = format_rows(r)
               /\ Read

\* with conn or with the pool, the statement and its result are the same
get_guild(guild_id) ==
    /\ call = Idle
    /\ \E now \in Nows,
             s \in OrderByGuildIdCaptureDateDesc(WhereGuildId(guilds, guild_id)) :
           LET rows == Rows(DistinctOn(s))
               r == fetchrow([i \in 1..Len(rows) |-> GuildSelect(now, rows[i])])
           IN  /\ call' = [op |-> "get_guild", guild_id |-> guild_id, now |-> now]
               /\ result' = format_row(r)
               /\ Read

get_guild_metrics(guild_id) ==
    /\ call = Idle
    /\ \E now \in Nows, s \in OrderByCaptureDate(WhereGuildId(guilds, str(guild_id))) :
           LET rows == Rows(s)
               r == [i \in 1..Len(rows) |-> MetricsSelect(now, rows[i])]
           IN  /\ call' = [op |-> "get_guild_metrics", guild_id |-> guild_id, now |-> now]
               /\ result' = IF Len(r) # 0 THEN format_rows(r) ELSE ReturnList(<<>>)
               /\ Read

get_guild_history(guild_id) ==
    /\ call = Idle
    /\ \E now \in Nows, s \in OrderByCaptureDate(WhereGuildId(guilds, str(guild_id))) :
           LET rows == Rows(s)
               r == [i \in 1..Len(rows) |-> HistorySelect(now, rows[i])]
           IN  /\ call' = [op |-> "get_guild_history", guild_id |-> guild_id, now |-> now]
               /\ result' = IF Len(r) # 0 THEN format_rows(r) ELSE ReturnList(<<>>)
               /\ Read

get_id_name_autocomplete ==
    /\ call = Idle
    /\ \E s \in OrderByGuildIdCaptureDateDesc(Tuples(guilds)) :
           LET rows == Rows(DistinctOn(s))
               r == [i \in 1..Len(rows) |-> AutocompleteSelect(rows[i])]
           IN  /\ call' = [op |-> "get_id_name_autocomplete"]
               /\ result' = ReturnList([i \in 1..Len(r) |->
                                           [id |-> r[i].guild_id, name |-> r[i].guild_name]])
               /\ Read

\* {row['uuid']: row['name'] for row in r}: a later row replaces an earlier key
names_dict(r) ==
    [uuid \in {r[i].uuid : i \in 1..Len(r)} |->
        LET last == CHOOSE i \in 1..Len(r) :
                        /\ r[i].uuid = uuid
                        /\ \A j \in 1..Len(r) : r[j].uuid = uuid => j <= i
        IN  r[last].name]

get_names(uuids) ==
    /\ call = Idle
    /\ \E s \in Orders(WhereUuidAny(players, uuids)) :
           LET rows == Rows(s)
               r == [i \in 1..Len(rows) |-> NamesSelect(rows[i])]
           IN  /\ call' = [op |-> "get_names", uuids |-> uuids]
               /\ result' = ReturnDict(names_dict(r))
               /\ Read

get_players(uuids) ==
    /\ call = Idle
    /\ \E now \in Nows, s \in Orders(WhereUuidAny(players, uuids)) :
           LET rows == Rows(s)
               r == [i \in 1..Len(rows) |-> PlayersSelect(now, rows[i])]
           IN  /\ call' = [op |-> "get_players", uuids |-> uuids, now |-> now]
               /\ result' = format_rows(r)
               /\ Read

get_guild_discord(guild_id) ==
    /\ call = Idle
    /\ \E s \in Orders(WhereGuildId(guild_information, guild_id)) :
           LET rows == Rows(s)
               r == fetchrow([i \in 1..Len(rows) |-> DiscordSelect(rows[i])])
           IN  /\ call' = [op |-> "get_guild_discord", guild_id |-> guild_id]
               /\ result' = Return(IF r # None THEN Some(r.discord) ELSE None)
               /\ Read

(***************************************************************************)
(* The write operation                                                     *)
(***************************************************************************)
\* ... ON CONFLICT (guild_id) DO NOTHING
on_conflict_do_nothing(table, guild_id, discordid) ==
    IF \E row \in BagToSet(table) : row.guild_id = guild_id
        THEN table
        ELSE table (+) SetToBag({[guild_id |-> guild_id, discord |-> discordid]})

\* an upsert that overwrites the discord of every stored mapping
on_conflict_update_all(table, guild_id, discordid) ==
    LET new == [guild_id |-> guild_id, discord |-> discordid]
        others == {row \in BagToSet(table) : row.guild_id # guild_id}
    IN  SetToBag({[row EXCEPT !.discord = discordid] : row \in others})
            (+) SetToBag({new})

\* INSERT ... VALUES ($1, $2) ON CONFLICT (guild_id) DO UPDATE SET discord = $2
\* on a table whose guild_id is unique
on_conflict_do_update(table, guild_id, discordid) ==
    LET new == [guild_id |-> guild_id, discord |-> discordid]
        kept == {row \in BagToSet(table) : row.guild_id # guild_id}
    IN  [row \in kept |-> table[row]] (+) SetToBag({new})

upsert_guild_info(guild_id, discordid) ==
    /\ call = Idle
    /\ call' = [op |-> "upsert_guild_info", guild_id |-> guild_id,
                discord |-> discordid]
    /\ UNCHANGED <<guilds, players, guild_id_unique, json_keys>>
    /\ IF guild_id_unique
          THEN LET old == WhereGuildId(guild_information, guild_id)
                   conflict == old # {}
                   replaced == IF conflict
                                   THEN Some((CHOOSE t \in old : TRUE)[1].discord)
                                   ELSE None
               IN  /\ conflict \/ TotalRows < MaxRows
                   /\ guild_information' =
                          on_conflict_do_update(guild_information, guild_id, discordid)
                   /\ last_upsert' =
                          [last_upsert EXCEPT ![guild_id] =
                              Some([discord |-> discordid, replaced |-> replaced])]
                   /\ result' = Return(None)
          \* no unique or exclusion constraint matches the ON CONFLICT target
          ELSE /\ result' = Raise("InvalidColumnReferenceError")
               /\ UNCHANGED <<guild_information, last_upsert>>

\* the caller takes the result of the finished call
Returned ==
    /\ call # Idle
    /\ call' = Idle
    /\ result' = Return(None)
    /\ UNCHANGED <<tables, guild_id_unique, json_keys, last_upsert>>

Ingest ==
    \/ \E row \in GuildRows : InsertGuild(row)
    \/ \E row \in PlayerRows : InsertPlayer(row)
    \/ \E row \in InfoRows : InsertInfo(row)

Reads ==
    \/ get_guilds
    \/ \E guild_id \in GuildIds : get_guild(guild_id)
    \/ \E guild_id \in GuildIds : get_guild_metrics(guild_id)
    \/ \E guild_id \in GuildIds : get_guild_history(guild_id)
    \/ get_id_name_autocomplete
    \/ \E uuids \in UuidLists : get_names(uuids)
    \/ \E uuids \in UuidLists : get_players(uuids)
    \/ \E guild_id \in GuildIds : get_guild_discord(guild_id)

Next ==
    \/ Ingest
    \/ Reads
    \/ \E guild_id \in GuildIds, discordid \in Discords :
           upsert_guild_info(guild_id, discordid)
    \/ Returned

\* the facade as the source has it: json_keys stays the empty list
Spec == Init /\ [][Next]_vars

\* the read operations of a facade whose application sets json_keys
NextConfigured ==
    \/ Ingest
    \/ \E keys \in SUBSET JsonKeyNames : set_json_keys(keys)
    \/ Reads
    \/ Returned

\* for the reads the documented schema suffices: a unique index only removes
\* contents of guild_information
InitConfigured == Init /\ ~guild_id_unique

SpecConfigured == InitConfigured /\ [][NextConfigured]_vars

(***************************************************************************)
(* Properties                                                              *)
(***************************************************************************)
\* the stored snapshots of a guild
Snapshots(guild_id) == WhereGuildId(guilds, guild_id)

\* t is a snapshot of its guild with the maximum capture_date
IsLatest(t) ==
    \A u \in Snapshots(t[1].guild_id) : u[1].capture_date <= t[1].capture_date

\* C1: for a guild_id with at least one stored snapshot, get_guild returns the
\* record built from a row whose capture_date is the maximum among the rows
\* with that guild_id.
C1_GetGuildLatest ==
    (call.op = "get_guild" /\ Snapshots(call.guild_id) # {}) =>
        /\ result.kind = "return"
        /\ \E t \in Snapshots(call.guild_id) :
               /\ IsLatest(t)
               /\ result.value = GuildSelect(call.now, t[1])

\* get_guild has answered for a guild with an older and a newer snapshot
C1_Witness ==
    /\ call.op = "get_guild"
    /\ \E t, u \in Snapshots(call.guild_id) : t[1].capture_date < u[1].capture_date
    /\ result.kind = "return"
    /\ result.value # None

\* C2: after a call of upsert_guild_info(guild_id, discord), guild_information
\* holds exactly one row for that guild_id and its discord is the one passed.
C2_UpsertOneRow ==
    call.op = "upsert_guild_info" =>
        /\ Cardinality(WhereGuildId(guild_information, call.guild_id)) = 1
        /\ \A t \in WhereGuildId(guild_information, call.guild_id) :
               t[1].discord = call.discord

\* C3: get_guild_discord(G) returns the discord value of the last completed
\* upsert_guild_info for G.
C3_ReadAfterUpsert ==
    (call.op = "get_guild_discord" /\ last_upsert[call.guild_id] # None) =>
        result = Return(Some(last_upsert[call.guild_id].val.discord))

\* a row (G, D1) existed, upsert_guild_info(G, D2) completed, and
\* get_guild_discord(G) has answered
C3_Witness ==
    /\ call.op = "get_guild_discord"
    /\ last_upsert[call.guild_id] = Some([discord |-> "D2", replaced |-> Some("D1")])
    /\ result = Return(Some("D2"))

\* C4: a lookup that matches no row returns a value and does not raise: None
\* from get_guild and get_guild_discord, the empty list from
\* get_guild_metrics and get_guild_history, whatever json_keys holds.
C4_NotFound ==
    /\ (call.op = "get_guild" /\ Snapshots(call.guild_id) = {}) =>
           result = Return(None)
    /\ (call.op = "get_guild_discord"
            /\ WhereGuildId(guild_information, call.guild_id) = {}) =>
           result = Return(None)
    /\ (call.op \in {"get_guild_metrics", "get_guild_history"}
            /\ Snapshots(call.guild_id) = {}) =>
           result = ReturnList(<<>>)

\* get_guild has answered None for a guild without snapshots while another
\* guild has one and json_keys names a field of the query
C4_Witness ==
    /\ call.op = "get_guild"
    /\ Snapshots(call.guild_id) = {}
    /\ guilds # EmptyBag
    /\ "guild_name" \in json_keys
    /\ result = Return(None)

\* C5: get_guilds returns at most one record per guild_id, and every record is
\* built from a row with the latest capture_date of its guild_id.
C5_GetGuildsOnePerGuild ==
    call.op = "get_guilds" =>
        /\ result.kind = "return"
        /\ \A i, j \in 1..Len(result.list) :
               i # j => result.list[i].guild_id # result.list[j].guild_id
        /\ \A i \in 1..Len(result.list) :
               \E t \in Tuples(guilds) :
                   /\ IsLatest(t)
                   /\ result.list[i] = GuildsSelect(call.now, t[1])

\* get_guilds has answered with one record for a guild that has an older and a
\* newer snapshot
C5_Witness ==
    /\ call.op = "get_guilds"
    /\ \E t, u \in Tuples(guilds) :
           /\ t[1].guild_id = u[1].guild_id
           /\ t[1].capture_date < u[1].capture_date
    /\ result.kind = "return"
    /\ Len(result.list) = 1

\* the snapshots of the guild in the orders that are non-decreasing in
\* capture_date
OldestToNewest(guild_id) ==
    {Rows(o) : o \in
        {o \in Orders(Snapshots(guild_id)) :
            \A i, j \in 1..Len(o) : i < j => o[i][1].capture_date <= o[j][1].capture_date}}

\* C6: get_guild_metrics and get_guild_history return one record per stored
\* snapshot of the guild, in non-decreasing order of the rows' capture_date.
C6_OldestFirst ==
    /\ call.op = "get_guild_metrics" =>
           /\ result.kind = "return"
           /\ \E rows \in OldestToNewest(call.guild_id) :
                  result.list =
                      [i \in 1..Len(rows) |-> MetricsSelect(call.now, rows[i])]
    /\ call.op = "get_guild_history" =>
           /\ result.kind = "return"
           /\ \E rows \in OldestToNewest(call.guild_id) :
                  result.list =
                      [i \in 1..Len(rows) |-> HistorySelect(call.now, rows[i])]

\* get_guild_metrics has answered for a guild with two snapshots of different
\* capture_date
C6_Witness ==
    /\ call.op = "get_guild_metrics"
    /\ result.kind = "return"
    /\ Len(result.list) = 2
    /\ result.list[1].time_difference > result.list[2].time_difference

\* the uuids of a list
Requested(uuids) == {uuids[i] : i \in 1..Len(uuids)}

\* C7: the mapping of get_names has as keys exactly the requested uuids that
\* are stored in players, each with its stored name.
C7_GetNames ==
    call.op = "get_names" =>
        /\ result.kind = "return"
        /\ DOMAIN result.dict =
               {uuid \in Requested(call.uuids) :
                   \E t \in Tuples(players) : t[1].uuid = uuid}
        /\ \A uuid \in DOMAIN result.dict :
               \E t \in Tuples(players) :
                   t[1].uuid = uuid /\ t[1].name = result.dict[uuid]

\* get_names(["u1", "u2"]) has answered while only u1 of the two is stored
C7_Witness ==
    /\ call.op = "get_names"
    /\ call.uuids = <<"u1", "u2">>
    /\ {t[1].uuid : t \in Tuples(players)} = {"u1"}
    /\ DOMAIN result.dict = {"u1"}

\* C8: in every record of get_guilds, players is the number of elements of the
\* snapshot's players array, 0 for the empty array, the member_count that
\* get_guild_metrics reports for the same snapshot.
C8_PlayersCount ==
    call.op = "get_guilds" =>
        \A i \in 1..Len(result.list) :
            \E t \in Tuples(guilds) :
                /\ result.list[i] =
                       [GuildsSelect(call.now, t[1]) EXCEPT
                           !.players = Some(Len(t[1].players))]
                /\ result.list[i].players =
                       MetricsSelect(call.now, t[1]).member_count

\* the values json.loads returns
Decoded == {JsonValue[s] : s \in DOMAIN JsonValue}

\* every field of the record that json_keys names holds a decoded value
FieldsDecoded(record) ==
    \A key \in DOMAIN record \cap json_keys : record[key] \in Decoded

\* C9 as stated: in the result of every read operation, each returned field
\* whose name is in json_keys is decoded.
C9_DecodedEverywhere ==
    result.kind = "return" =>
        /\ call.op \in {"get_guilds", "get_guild_metrics", "get_guild_history",
                        "get_players", "get_id_name_autocomplete"} =>
               \A i \in 1..Len(result.list) : FieldsDecoded(result.list[i])
        /\ (call.op = "get_guild" /\ result.value # None) =>
               FieldsDecoded(result.value)
        /\ (call.op = "get_names" /\ "name" \in json_keys) =>
               \A uuid \in DOMAIN result.dict : result.dict[uuid] \in Decoded
        /\ (call.op = "get_guild_discord" /\ "discord" \in json_keys
                /\ result.value # None) =>
               result.value.val \in Decoded

\* the record format_json is to return for a row of a statement
Shaped(row) ==
    [key \in DOMAIN row |-> IF key \in json_keys THEN JsonValue[row[key]] ELSE row[key]]

\* json.loads fails on a field of the row
Malformed(row) ==
    \E key \in DOMAIN row \cap json_keys : row[key] \notin DOMAIN JsonValue

\* the result of a read operation that shapes the rows `rows` of its statement
ShapedRows(rows) ==
    IF \E i \in 1..Len(rows) : Malformed(rows[i])
        THEN Raise("JSONDecodeError")
        ELSE ReturnList([i \in 1..Len(rows) |-> Shaped(rows[i])])

\* the result of a read operation that shapes the one row of its statement
ShapedRow(row) ==
    IF Malformed(row) THEN Raise("JSONDecodeError") ELSE Return(Shaped(row))

\* the stored rows of the tuples T in every order
RowsOf(T) == {Rows(s) : s \in Orders(T)}

\* C9, amended: get_guilds, get_guild, get_guild_metrics, get_guild_history and
\* get_players return every field named in json_keys decoded and every other
\* field as selected, or raise when a named field holds no JSON document;
\* get_id_name_autocomplete, get_names and get_guild_discord return the stored
\* values undecoded whatever json_keys holds.
C9_DecodedWhereShaped ==
    /\ call.op = "get_guilds" =>
           \E T \in SUBSET Tuples(guilds) : \E rows \in RowsOf(T) :
               result =
                   ShapedRows([i \in 1..Len(rows) |-> GuildsSelect(call.now, rows[i])])
    /\ call.op = "get_guild" =>
           \/ result = Return(None)
           \/ \E t \in Snapshots(call.guild_id) :
                  result = ShapedRow(GuildSelect(call.now, t[1]))
    /\ call.op = "get_guild_metrics" =>
           \E rows \in RowsOf(Snapshots(call.guild_id)) :
               result =
                   ShapedRows([i \in 1..Len(rows) |-> MetricsSelect(call.now, rows[i])])
    /\ call.op = "get_guild_history" =>
           \E rows \in RowsOf(Snapshots(call.guild_id)) :
               result =
                   ShapedRows([i \in 1..Len(rows) |-> HistorySelect(call.now, rows[i])])
    /\ call.op = "get_players" =>
           \E rows \in RowsOf(WhereUuidAny(players, call.uuids)) :
               result =
                   ShapedRows([i \in 1..Len(rows) |-> PlayersSelect(call.now, rows[i])])
    /\ call.op = "get_id_name_autocomplete" =>
           /\ result.kind = "return"
           /\ \A i \in 1..Len(result.list) :
                  \E t \in Tuples(guilds) :
                      result.list[i] =
                          [id |-> t[1].guild_id, name |-> t[1].guild_name]
    /\ call.op = "get_names" =>
           /\ result.kind = "return"
           /\ \A uuid \in DOMAIN result.dict :
                  \E t \in Tuples(players) :
                      t[1].uuid = uuid /\ result.dict[uuid] = t[1].name
    /\ call.op = "get_guild_discord" =>
           \/ result = Return(None)
           \/ \E t \in WhereGuildId(guild_information, call.guild_id) :
                  result = Return(Some(t[1].discord))

\* get_guild has answered with guild_name decoded while json_keys names it
C9_Witness ==
    /\ call.op = "get_guild"
    /\ "guild_name" \in json_keys
    /\ result.kind = "return"
    /\ result.value # None
    /\ result.value.guild_name = "a"

ReadOps ==
    {"get_guilds", "get_guild", "get_guild_metrics", "get_guild_history",
     "get_id_name_autocomplete", "get_names", "get_players", "get_guild_discord"}

\* C10: a step of a read operation leaves the three tables unchanged, and a
\* step of upsert_guild_info(g, d) leaves guilds, players and the mappings of
\* every guild_id other than g unchanged.
C10_Frame ==
    [][/\ call'.op \in ReadOps => tables' = tables
       /\ (call = Idle /\ call'.op = "upsert_guild_info") =>
              /\ guilds' = guilds
              /\ players' = players
              /\ \A g \in GuildIds \ {call'.guild_id} :
                     WhereGuildId(guild_information', g)
                         = WhereGuildId(guild_information, g)]_vars

\* upsert_guild_info has overwritten the mapping of one guild while a mapping
\* of another guild is stored
C10_Witness ==
    /\ call.op = "upsert_guild_info"
    /\ result.kind = "return"
    /\ last_upsert[call.guild_id].val.replaced # None
    /\ last_upsert[call.guild_id].val.replaced # Some(call.discord)
    /\ \E t \in Tuples(guild_information) : t[1].guild_id # call.guild_id

====
